---- MODULE Spec2Model ----
(***************************************************************************)
(* Model of tools/mock_weather_provider.py: the MockWeatherProvider D-Bus  *)
(* object (its snapshot, its two query methods, its WeatherUpdated signal  *)
(* and the update_weather timer callback) and the lifecycle of main().     *)
(*                                                                         *)
(* Temperatures are whole degrees (a scaled abstraction of the floats the  *)
(* script draws with random.uniform).  Time is counted in ticks of         *)
(* 1/TicksPerSec second, so that int(datetime.now().timestamp()) is a real *)
(* truncation.  Every random draw is an existential choice.                *)
(***************************************************************************)
EXTENDS Integers, Sequences, FiniteSets

\* ------------------------------------------------------------------ bounds

\* Clock resolution: ticks per second of the modelled wall clock.
TicksPerSec == 2
\* The wall clock stops advancing at MaxTime ticks.
MaxTime == 2
\* The timer callback is observed at most MaxUpdates times.
MaxUpdates == 2

\* ------------------------------------------------------- program constants

CITIES == <<"New York", "London", "Tokyo", "Paris", "Sydney">>

WEATHER_CONDITIONS ==
  << [code |-> "clear-sky",        label |-> "Clear sky",    offset |-> 0],
     [code |-> "few-clouds",       label |-> "Few clouds",   offset |-> 5],
     [code |-> "scattered-clouds", label |-> "Cloudy",       offset |-> 10],
     [code |-> "rain",             label |-> "Rain",         offset |-> -5],
     [code |-> "snow",             label |-> "Snow",         offset |-> -10],
     [code |-> "thunderstorm",     label |-> "Thunderstorm", offset |-> 0] >>

\* random.choice(seq): any element of the sequence.
Choice(seq) == { seq[i] : i \in 1..Len(seq) }

\* The value of self.current_condition before __init__ has run.
NoCondition == [code |-> "", label |-> "", offset |-> 0]

\* base_temp = random.uniform(15.0, 25.0)
BaseTempLo == 15
BaseTempHi == 25
\* jitter of GetCurrentWeather: random.uniform(-2.0, 2.0)
JitterLo == -2
JitterHi == 2
\* spread of min/max: random.uniform(2.0, 5.0)
SpreadLo == 2
SpreadHi == 5
\* day base of GetForecast: random.uniform(-5.0, 5.0)
DayJitterLo == -5
DayJitterHi == 5
\* sunrise = 6 * 60 + random.randint(0, 60); sunset = 18 * 60 + random.randint(0, 60)
SunriseHour == 6
SunsetHour == 18
MinutesPerHour == 60
SunOffsetMax == 60
\* for i in range(5)
ForecastDays == 5
\* default of --update-interval
DefaultInterval == 300
\* return codes of main
ExitOk == 0
ExitError == 1
\* GLib.Variant('q', v): 16-bit unsigned
Uint16Max == 65535

\* ----------------------------------------------------------- random draws

\* random.uniform(lo, hi), sampled at the two ends of the range.
Uniform(lo, hi) == {lo, hi}

\* random.randint(lo, hi), sampled at the two ends of the range (both included).
RandInt(lo, hi) == {lo, hi}

\* ---------------------------------------------------------------- inputs

\* --location: absent (None) or a name.
NoArg == "<None>"
LocationArgs == {NoArg, "Springfield"}
\* --update-interval: type=int, so a negative value parses too; 0 disables the
\* timer; the default.
IntervalArgs == {0 - 1, 0, DefaultInterval}

VARIABLES
  pc,                 \* position of main(): which statement runs next
  args,               \* the parsed command line
  location,           \* self.location
  base_temp,          \* self.base_temp
  current_condition,  \* self.current_condition
  timerArmed,         \* the GLib timeout source for update_weather exists
  now,                \* the wall clock, in ticks
  emitted,            \* number of WeatherUpdated signals emitted so far
  updates,            \* number of invocations of update_weather so far
  last,               \* the last handler the loop dispatched, and what it returned
  exitCode,           \* {the value main() returned}, or NotReturned
  out                 \* the final message main() printed

vars == << pc, args, location, base_temp, current_condition, timerArmed,
           now, emitted, updates, last, exitCode, out >>

snapshot == << location, base_temp, current_condition >>
history == << emitted, updates, last >>

NoCall == [op |-> "none"]
\* main() has not returned: no exit code yet.
NotReturned == {}

\* round(...) in place of int(...).
TimestampRounded(t) == (t + TicksPerSec - 1) \div TicksPerSec

\* int(datetime.now().timestamp()): truncation of the clock to whole seconds.
Timestamp(t) == t \div TicksPerSec

Init ==
  /\ pc = "connect"
  /\ args \in [location: LocationArgs, update_interval: IntervalArgs]
  /\ location = ""
  /\ base_temp = 0
  /\ current_condition = NoCondition
  /\ timerArmed = FALSE
  /\ now = 0
  /\ emitted = 0
  /\ updates = 0
  /\ last = NoCall
  /\ exitCode = NotReturned
  /\ out = "none"

\* ------------------------------------------------------------------ main

\* What a statement of main() can do besides completing.
Faults == {"KeyboardInterrupt", "Exception"}

\* except KeyboardInterrupt: print stopped, fall through to return 0.
\* except Exception as e: print Error, return 1.
Caught(fault) ==
  /\ pc' = "exited"
  /\ out' = IF fault = "KeyboardInterrupt" THEN "stopped" ELSE "error"
  /\ exitCode' = IF fault = "KeyboardInterrupt" THEN {ExitOk} ELSE {ExitError}

\* An exception raised outside the try block leaves main() without a return.
Escapes(fault) ==
  /\ pc' = "escaped"
  /\ out' = fault
  /\ exitCode' = NotReturned

\* bus = SessionBus(), before the try block.
ConnectBus ==
  /\ pc = "connect"
  /\ \/ /\ pc' = "construct"
        /\ UNCHANGED << out, exitCode >>
     \/ \E fault \in Faults : Escapes(fault)
  /\ UNCHANGED << args, snapshot, timerArmed, now, history >>

\* self.location = location or random.choice(CITIES)
InitLocation(arg) ==
  IF arg = NoArg \/ arg = "" THEN Choice(CITIES) ELSE {arg}

\* provider = MockWeatherProvider(location=args.location)
Construct ==
  /\ pc = "construct"
  /\ \/ /\ pc' = "publish"
        /\ location' \in InitLocation(args.location)
        /\ base_temp' \in Uniform(BaseTempLo, BaseTempHi)
        /\ current_condition' \in Choice(WEATHER_CONDITIONS)
        /\ UNCHANGED << out, exitCode >>
     \/ /\ \E fault \in Faults : Caught(fault)
        /\ UNCHANGED snapshot
  /\ UNCHANGED << args, timerArmed, now, history >>

\* bus.publish(service_name, ('/', provider))
Publish ==
  /\ pc = "publish"
  /\ \/ /\ pc' = "timer"
        /\ UNCHANGED << out, exitCode >>
     \/ \E fault \in Faults : Caught(fault)
  /\ UNCHANGED << args, snapshot, timerArmed, now, history >>

\* >= in place of >.
TimerWantedAtZero(interval) == interval >= 0

\* if args.update_interval > 0:
TimerWanted(interval) == interval > 0

\* GLib.timeout_add_seconds(args.update_interval, provider.update_weather)
InstallTimer ==
  /\ pc = "timer"
  /\ \/ /\ pc' = "running"
        /\ timerArmed' = TimerWanted(args.update_interval)
        /\ UNCHANGED << out, exitCode >>
     \/ /\ \E fault \in Faults : Caught(fault)
        /\ UNCHANGED timerArmed
  /\ UNCHANGED << args, snapshot, now, history >>

\* --------------------------------------------------------------- handlers

\* The label of the tuple taken for its tag.
ConditionLabel(c) == c.label

\* condition_code, _, temp_offset = condition: the tag of the tuple.
ConditionCode(c) == c.code
\* ... and its temperature bias.
ConditionOffset(c) == c.offset

\* GLib.Variant('q', v) accepts only a 16-bit unsigned value.
FitsUint16(v) == v \in 0..Uint16Max

\* temp = self.base_temp + temp_offset + random.uniform(-2.0, 2.0)
Temperature(base, offset, jitter) == base + offset + jitter
\* + in place of -.
MinTempAbove(temp, spread) == temp + spread

\* min_temp = temp - random.uniform(2.0, 5.0)
MinTemp(temp, spread) == temp - spread
\* max_temp = temp + random.uniform(2.0, 5.0)
MaxTemp(temp, spread) == temp + spread
\* The hour converted to seconds instead of minutes.
SunriseInSeconds(r) == SunriseHour * MinutesPerHour * MinutesPerHour + r

\* sunrise = 6 * 60 + random.randint(0, 60)
Sunrise(r) == SunriseHour * MinutesPerHour + r
\* The sunrise line copied without changing the hour.
SunsetAtSunriseHour(r) == SunriseHour * MinutesPerHour + r

\* sunset = 18 * 60 + random.randint(0, 60)
Sunset(r) == SunsetHour * MinutesPerHour + r

\* The dictionary GetCurrentWeather builds from the snapshot and its draws.
WeatherReport(jitter, spreadLo, spreadHi, r1, r2) ==
  LET temp == Temperature(base_temp, ConditionOffset(current_condition), jitter)
  IN  [ location        |-> location,
        temperature     |-> temp,
        min_temperature |-> MinTemp(temp, spreadLo),
        max_temperature |-> MaxTemp(temp, spreadHi),
        icon_code       |-> ConditionCode(current_condition),
        timestamp       |-> Timestamp(now),
        sunrise         |-> Sunrise(r1),
        sunset          |-> Sunset(r2) ]

\* The random draws of one GetCurrentWeather call.  The three temperature draws
\* and the two sun draws feed disjoint fields of the report, so each group is
\* sampled in full while the other stays at its low end.
WeatherDraws ==
  { [jitter |-> j, spreadLo |-> a, spreadHi |-> b, r1 |-> 0, r2 |-> 0] :
      j \in Uniform(JitterLo, JitterHi),
      a \in Uniform(SpreadLo, SpreadHi),
      b \in Uniform(SpreadLo, SpreadHi) }
  \cup
  { [jitter |-> JitterLo, spreadLo |-> SpreadLo, spreadHi |-> SpreadLo,
     r1 |-> x, r2 |-> y] :
      x \in RandInt(0, SunOffsetMax), y \in RandInt(0, SunOffsetMax) }

\* MockWeatherProvider.GetCurrentWeather, dispatched by the running loop.
GetCurrentWeather ==
  /\ pc = "running"
  /\ \E d \in WeatherDraws :
       LET weather == WeatherReport(d.jitter, d.spreadLo, d.spreadHi, d.r1, d.r2)
       IN  last' = IF FitsUint16(weather.sunrise) /\ FitsUint16(weather.sunset)
                   THEN [op |-> "GetCurrentWeather", ok |-> TRUE, reply |-> weather]
                   ELSE [op |-> "GetCurrentWeather", ok |-> FALSE, reply |-> "OverflowError"]
  /\ UNCHANGED << pc, args, snapshot, timerArmed, now, emitted, updates,
                  exitCode, out >>

\* One element of a two-point sample, by the parity of k.
Pick(lo, hi, k) == IF k % 2 = 0 THEN lo ELSE hi

\* The random draws of one GetForecast call, day by day: the conditions start at
\* any of the six and either stay or rotate; the uniform draws alternate between
\* the ends of their ranges.
ForecastDraws ==
  { [ i \in 0..(ForecastDays - 1) |->
        [ condition |-> WEATHER_CONDITIONS[((c + s * i) % Len(WEATHER_CONDITIONS)) + 1],
          jitter    |-> Pick(DayJitterLo, DayJitterHi, i + c),
          spreadLo  |-> Pick(SpreadLo, SpreadHi, i + s),
          spreadHi  |-> Pick(SpreadLo, SpreadHi, (i \div 2) + c) ] ] :
      c \in 0..(Len(WEATHER_CONDITIONS) - 1), s \in 0..1 }

\* The body of the loop of GetForecast: one day entry.
ForecastDay(base, draw) ==
  LET day_base == base + draw.jitter
  IN  [ min_temperature |-> day_base - draw.spreadLo,
        max_temperature |-> day_base + draw.spreadHi,
        icon_code       |-> ConditionCode(draw.condition) ]

\* The loop stopping one day early.
RECURSIVE ForecastLoopShort(_, _, _, _)
ForecastLoopShort(i, days, base, rnd) ==
  IF i >= ForecastDays - 1 THEN days
  ELSE ForecastLoopShort(i + 1, Append(days, ForecastDay(base, rnd[i])), base, rnd)

\* for i in range(5): days.append(...)
RECURSIVE ForecastLoop(_, _, _, _)
ForecastLoop(i, days, base, rnd) ==
  IF i >= ForecastDays THEN days
  ELSE ForecastLoop(i + 1, Append(days, ForecastDay(base, rnd[i])), base, rnd)

\* GetForecast keeping the condition it drew last in the snapshot.
GetForecastStoring ==
  /\ pc = "running"
  /\ \E rnd \in ForecastDraws :
       /\ last' = [ op    |-> "GetForecast",
                    ok    |-> TRUE,
                    reply |-> [ timestamp |-> Timestamp(now),
                                days      |-> ForecastLoop(0, << >>, base_temp, rnd) ] ]
       /\ current_condition' = rnd[ForecastDays - 1].condition
  /\ UNCHANGED << pc, args, location, base_temp, timerArmed, now, emitted, updates,
                  exitCode, out >>

\* MockWeatherProvider.GetForecast, dispatched by the running loop.
GetForecast ==
  /\ pc = "running"
  /\ \E rnd \in ForecastDraws :
       last' = [ op    |-> "GetForecast",
                 ok    |-> TRUE,
                 reply |-> [ timestamp |-> Timestamp(now),
                             days      |-> ForecastLoop(0, << >>, base_temp, rnd) ] ]
  /\ UNCHANGED << pc, args, snapshot, timerArmed, now, emitted, updates,
                  exitCode, out >>

\* The callback returning nothing a timeout source takes for "continue".
UpdateReturnsFalse == FALSE

\* return True  # Continue the timer
UpdateReturn == TRUE

\* self.WeatherUpdated(...) is called once per update_weather.
SignalsPerUpdate == 1

\* The clock may tick once between two statements of a handler.
Elapse(t) == { u \in {t, t + 1} : u <= MaxTime }

\* MockWeatherProvider.update_weather, called by the GLib timeout source; the
\* source stays installed exactly when the callback returns True.
update_weather ==
  /\ pc = "running"
  /\ timerArmed
  /\ updates < MaxUpdates
  /\ \E condition \in Choice(WEATHER_CONDITIONS), read \in Elapse(now) :
       /\ current_condition' = condition
       /\ \E after \in Elapse(read) :
            /\ now' = after
            /\ last' = [ op     |-> "update_weather",
                         ok     |-> TRUE,
                         reply  |-> UpdateReturn,
                         before |-> now,
                         signal |-> Timestamp(read),
                         after  |-> after ]
  /\ emitted' = emitted + SignalsPerUpdate
  /\ updates' = updates + 1
  /\ timerArmed' = (UpdateReturn = TRUE)
  /\ UNCHANGED << pc, args, location, base_temp, exitCode, out >>

\* loop.run() ends only by an exception.
LoopStops ==
  /\ pc = "running"
  /\ \E fault \in Faults : Caught(fault)
  /\ UNCHANGED << args, snapshot, timerArmed, now, history >>

\* The wall clock advances.
Tick ==
  /\ pc \notin {"exited", "escaped"}
  /\ now < MaxTime
  /\ now' = now + 1
  /\ UNCHANGED << pc, args, snapshot, timerArmed, history, exitCode, out >>

Next ==
  \/ ConnectBus
  \/ Construct
  \/ Publish
  \/ InstallTimer
  \/ GetCurrentWeather
  \/ GetForecast
  \/ update_weather
  \/ LoopStops
  \/ Tick

Spec == Init /\ [][Next]_vars

\* The liveness specification with the command line narrowed to a given
\* location: the snapshot's location plays no part in the timer.
InitGiven == Init /\ args.location # NoArg
LiveSpec == InitGiven /\ [][Next]_vars /\ WF_vars(update_weather)

\* ---------------------------------------------------------------- claims

\* The six icon tags the interface documents.
KnownTags ==
  {"clear-sky", "few-clouds", "scattered-clouds", "rain", "snow", "thunderstorm"}

\* The provider object exists and main() is still inside the try block.
Constructed == pc \in {"publish", "timer", "running"}

IsUpdate == last.op = "update_weather"
IsWeather == last.op = "GetCurrentWeather"
IsForecast == last.op = "GetForecast"

\* C1, as stated: every update_weather leaves current_condition in
\* WEATHER_CONDITIONS and emits exactly one WeatherUpdated, whose timestamp t
\* satisfies (time before the call) <= t <= (time after the call), times taken
\* on the wall clock; the signals emitted equal the invocations.
C1_TimestampBracketedByClock ==
  /\ emitted = updates
  /\ IsUpdate =>
       /\ ConditionCode(current_condition) \in KnownTags
       /\ last.before <= last.signal * TicksPerSec
       /\ last.signal * TicksPerSec <= last.after

\* C1, amended: the same, but the timestamp is in whole seconds, so its lower
\* bound is the time before the call truncated to whole seconds:
\* floor(time before) <= t <= (time after).
C1_TimestampBracketedBySeconds ==
  /\ emitted = updates
  /\ IsUpdate =>
       /\ ConditionCode(current_condition) \in KnownTags
       /\ last.before - TicksPerSec < last.signal * TicksPerSec
       /\ last.before \div TicksPerSec <= last.signal
       /\ last.signal * TicksPerSec <= last.after

\* An update that began strictly inside a second, after an earlier one.
C1_Witness ==
  /\ IsUpdate
  /\ updates >= 2
  /\ last.before % TicksPerSec # 0

\* C2: with --update-interval 0 no timer is installed, no WeatherUpdated is
\* ever emitted, and current_condition never changes once chosen at startup.
C2_IntervalZeroIsSilent ==
  /\ [](args.update_interval = 0 => ~timerArmed /\ emitted = 0 /\ updates = 0)
  /\ [][args.update_interval = 0 /\ Constructed
          => current_condition' = current_condition]_vars

\* The loop runs with interval 0 and has served a forecast query.
C2_Witness ==
  /\ args.update_interval = 0
  /\ pc = "running"
  /\ IsForecast

\* C3: with a positive interval the timer is armed while the loop runs, every
\* update_weather returns True and leaves it armed, and each firing is followed
\* by the next one (with its signal) unless the process leaves the loop.
C3_TimerRecurs ==
  /\ [](pc = "running" /\ args.update_interval > 0 => timerArmed)
  /\ [][updates' # updates => last'.reply = TRUE /\ timerArmed']_vars
  /\ \A n \in 0..(MaxUpdates - 1) :
       (pc = "running" /\ timerArmed /\ updates = n)
         ~> (pc # "running" \/ (updates = n + 1 /\ emitted = n + 1))

\* The timer is still armed after it fired twice.
C3_Witness ==
  /\ pc = "running"
  /\ timerArmed
  /\ updates >= 2
  /\ emitted >= 2

\* C4: main() ends in one of two ways, an interrupt caught (stopped logged,
\* return 0) or any other exception caught (message printed, return 1); no
\* exception of any step, connecting to the bus included, escapes main().
C4_NothingEscapesMain ==
  /\ pc # "escaped"
  /\ pc = "exited" =>
       \/ out = "stopped" /\ exitCode = {ExitOk}
       \/ out = "error" /\ exitCode = {ExitError}

\* C5: a query changes no field of the snapshot and emits nothing; an update
\* changes only current_condition; nothing but an update changes the snapshot
\* of a constructed provider, so location and base_temp never change.
C5_SnapshotFrame ==
  [][ /\ (last' # last /\ last'.op \in {"GetCurrentWeather", "GetForecast"})
           => UNCHANGED << location, base_temp, current_condition, emitted >>
      /\ updates' # updates => UNCHANGED << location, base_temp >>
      /\ Constructed => UNCHANGED << location, base_temp >>
      /\ (Constructed /\ current_condition' # current_condition)
           => updates' = updates + 1 ]_vars

\* A forecast served after the timer has fired.
C5_Witness ==
  /\ IsForecast
  /\ updates >= 1
  /\ pc = "running"

\* C6: current_condition is always one of the six conditions; a
\* GetCurrentWeather report carries the icon code of the snapshot's condition;
\* every day of a forecast carries one of the six icon codes.
C6_IconCodesKnown ==
  /\ Constructed =>
       /\ current_condition \in Choice(WEATHER_CONDITIONS)
       /\ current_condition.code \in KnownTags
  /\ IsWeather =>
       /\ last.ok
       /\ last.reply.icon_code = current_condition.code
       /\ last.reply.icon_code \in KnownTags
  /\ IsForecast =>
       \A i \in DOMAIN last.reply.days : last.reply.days[i].icon_code \in KnownTags

\* A report of the condition a timer firing chose.
C6_Witness ==
  /\ IsWeather
  /\ updates >= 1
  /\ last.reply.icon_code = "thunderstorm"

\* C7: GetForecast can always be served and returns exactly 5 day entries.
C7_FiveDays ==
  /\ pc = "running" => ENABLED GetForecast
  /\ IsForecast => last.ok /\ Len(last.reply.days) = 5

\* A forecast with differing days, served after a report and a timer firing.
C7_Witness ==
  /\ IsForecast
  /\ updates >= 1
  /\ last.reply.days[1].icon_code # last.reply.days[2].icon_code

\* C8: every report has sunrise in [360, 420] and sunset in [1080, 1140], both
\* within the 16-bit unsigned wire type.
C8_SunWindows ==
  IsWeather =>
    /\ last.ok
    /\ last.reply.sunrise \in 360..420
    /\ last.reply.sunset \in 1080..1140
    /\ last.reply.sunrise \in 0..65535
    /\ last.reply.sunset \in 0..65535

\* A report with both values at the top of their windows.
C8_Witness ==
  /\ IsWeather
  /\ last.reply.sunrise = 420
  /\ last.reply.sunset = 1140

\* C9: in every report temperature is within 2 of base + offset, min is 2 to 5
\* below temperature, max is 2 to 5 above it, so min < temperature < max.
C9_TemperatureBand ==
  IsWeather =>
    LET r == last.reply
    IN  /\ r.temperature - (base_temp + current_condition.offset) \in -2..2
        /\ r.temperature - r.min_temperature \in 2..5
        /\ r.max_temperature - r.temperature \in 2..5
        /\ r.min_temperature < r.temperature
        /\ r.temperature < r.max_temperature

\* A report with the largest jitter and the widest spread below.
C9_Witness ==
  /\ IsWeather
  /\ last.reply.temperature = base_temp + current_condition.offset + 2
  /\ last.reply.min_temperature = last.reply.temperature - 5

\* C10: in every report sunrise < sunset.
C10_SunriseBeforeSunset ==
  IsWeather => last.reply.sunrise < last.reply.sunset

\* The latest sunrise with the earliest sunset.
C10_Witness ==
  /\ IsWeather
  /\ last.reply.sunrise = 420
  /\ last.reply.sunset = 1080

====
